---- MODULE Spec2Model ----
(***************************************************************************)
(* A model of scripts/parallel_inference.py: the input splitter            *)
(* (split_input_file), the job plan built in main(), the process pool that *)
(* runs run_inference_job once per job, the collection loop, the summary   *)
(* and the cleanup of the chunk files.                                     *)
(*                                                                         *)
(* A text file is a sequence of lines, a line a sequence of one-character  *)
(* strings (without its newline).  A file the program writes is a sequence *)
(* of characters, "\n" included.  The chunk file                           *)
(* f"{input_file}_chunk_{k}.txt" is the record [base |-> "input",          *)
(* chunk |-> k]; the input file itself is [base |-> "input", chunk |-> -1].*)
(***************************************************************************)
EXTENDS Integers, Sequences, FiniteSets, TLC

VARIABLES
    args,             \* argparse namespace: gpus, per_gpu_jobs, split_input
    input_file,       \* the lines of the file args.input_file names
    fs,               \* files the program has written: name -> characters
    pc,               \* position of main()
    error,            \* the exception that ended main(), or "none"
    gpu_ids,          \* main: gpu_ids
    total_processes,  \* main: total_processes
    chunk_files,      \* main: chunk_files
    jobs,             \* main: jobs
    status,           \* per job: state of its future / worker
    env,              \* per job: CUDA_VISIBLE_DEVICES of its external process
    retval,           \* per job: what the future holds once done
    yielded,          \* futures as_completed has handed to the loop
    results,          \* main: results
    report,           \* the summary main prints, <<>> until computed
    progress,         \* the progress lines main has printed (line 106)
    bpc,              \* speed_benchmark: position of main()
    configs,          \* speed_benchmark: the config files that exist
    test_input,       \* speed_benchmark: temporary files on disk
    available,        \* speed_benchmark main: available_benchmarks
    bresults,         \* speed_benchmark main: results
    results_file,     \* speed_benchmark: whether the JSON report is written
    berror            \* speed_benchmark: the exception that ended main()

benchvars ==
    <<bpc, configs, test_input, available, bresults, results_file, berror>>

vars == <<args, input_file, fs, pc, error, gpu_ids, total_processes,
          chunk_files, jobs, status, env, retval, yielded, results, report,
          progress, benchvars>>

----------------------------------------------------------------------------
(* Bounds of the model.                                                    *)

MaxLines == 5       \* lines of an input file, plan-only runs
MaxGpus == 3        \* device ids in --gpus
MaxPerGpu == 2      \* --per_gpu_jobs
MainLines == 3      \* lines of an input file, full runs
MaxPool == 4        \* len(gpu_ids) * per_gpu_jobs, full runs
MaxElapsed == 1     \* elapsed time of a job, in whole units

----------------------------------------------------------------------------
(* Text.                                                                   *)

NL == "\n"
SP == " "

\* The raw lines an input file is made of: empty, blank, plain, padded.
RawLines == { <<>>, <<SP>>, <<"a">>, <<SP, "b", SP>> }

InputName == [base |-> "input", chunk |-> -1]

RECURSIVE lstrip(_)
lstrip(s) == IF s # <<>> /\ Head(s) = SP THEN lstrip(Tail(s)) ELSE s

RECURSIVE rstrip(_)
rstrip(s) ==
    IF s # <<>> /\ s[Len(s)] = SP THEN rstrip(SubSeq(s, 1, Len(s) - 1)) ELSE s

\* str.strip()
strip(s) == rstrip(lstrip(s))

\* [line.strip() for line in f if line.strip()]
RECURSIVE read_lines(_)
read_lines(f) ==
    IF f = <<>> THEN <<>>
    ELSE IF strip(Head(f)) # <<>>
         THEN <<strip(Head(f))>> \o read_lines(Tail(f))
         ELSE read_lines(Tail(f))

\* '\n'.join(chunk_lines)
RECURSIVE join(_)
join(ls) ==
    IF ls = <<>> THEN <<>>
    ELSE IF Len(ls) = 1 THEN Head(ls)
    ELSE Head(ls) \o <<NL>> \o join(Tail(ls))

----------------------------------------------------------------------------
(* split_input_file.                                                       *)

Max(a, b) == IF a >= b THEN a ELSE b
Min(a, b) == IF a <= b THEN a ELSE b

\* Python's a // b for a >= 0 and b # 0: the floor of the quotient.
FloorDiv(a, b) ==
    IF b > 0 THEN a \div b ELSE 0 - ((a + (0 - b) - 1) \div (0 - b))

\* chunk_size = max(1, len(lines) // num_chunks)
chunk_size(lines, num_chunks) == Max(1, FloorDiv(Len(lines), num_chunks))

\* f"{input_file}_chunk_{i//chunk_size}.txt"
chunk_file(i, cs) == [base |-> "input", chunk |-> i \div cs]

\* A slice one item too long: lines[i:i + chunk_size + 1]
chunk_lines_overlap(lines, i, cs) ==
    SubSeq(lines, i + 1, Min(i + cs + 1, Len(lines)))

\* lines[i:i + chunk_size]
chunk_lines(lines, i, cs) == SubSeq(lines, i + 1, Min(i + cs, Len(lines)))

\* open(chunk_file, 'w').write(...): creates or overwrites the file
write_file(files, name, text) ==
    [n \in (DOMAIN files) \cup {name} |-> IF n = name THEN text ELSE files[n]]

\* The loop "for i in range(0, len(lines), chunk_size)" from index i on:
\* the files on disk and the list of chunk names it ends with.
RECURSIVE split_loop(_, _, _, _, _)
split_loop(lines, cs, i, files, chunks) ==
    IF i >= Len(lines) THEN [fs |-> files, chunks |-> chunks]
    ELSE split_loop(lines, cs, i + cs,
                    write_file(files, chunk_file(i, cs),
                               join(chunk_lines(lines, i, cs))),
                    Append(chunks, chunk_file(i, cs)))

\* split_input_file(input_file, num_chunks) on the disk `files`
split_input_file(f, num_chunks, files) ==
    IF num_chunks = 0
    THEN [error |-> "ZeroDivisionError", fs |-> files, chunks |-> <<>>]
    ELSE [error |-> "none"] @@
         split_loop(read_lines(f), chunk_size(read_lines(f), num_chunks),
                    0, files, <<>>)

----------------------------------------------------------------------------
(* main(): arguments and plan.                                             *)

NoFiles == [n \in {} |-> <<>>]

RECURSIVE SeqsUpTo(_, _)
SeqsUpTo(S, n) ==
    IF n = 0 THEN { <<>> }
    ELSE LET shorter == SeqsUpTo(S, n - 1)
         IN  shorter \cup { Append(s, x) : s \in shorter, x \in S }

\* --gpus: lists of distinct device ids 0, 1, ...; <<>> stands for --gpus ''
GpuLists == { [i \in 1..n |-> i - 1] : n \in 0..MaxGpus }

ArgSets ==
    [gpus : GpuLists, per_gpu_jobs : (-1)..MaxPerGpu, split_input : BOOLEAN]

StartState ==
    /\ fs = NoFiles
    /\ pc = "parse"
    /\ error = "none"
    /\ gpu_ids = <<>>
    /\ total_processes = 0
    /\ chunk_files = <<>>
    /\ jobs = <<>>
    /\ status = <<>>
    /\ env = <<>>
    /\ retval = <<>>
    /\ yielded = {}
    /\ results = <<>>
    /\ report = <<>>
    /\ progress = <<>>

\* speed_benchmark.py is not running.
BenchIdle ==
    /\ bpc = "idle"
    /\ configs = {}
    /\ test_input = {}
    /\ available = <<>>
    /\ bresults = <<>>
    /\ results_file = FALSE
    /\ berror = "none"

\* Plan-only runs: every input file of at most MaxLines raw lines.
PlanInit ==
    /\ args \in ArgSets
    /\ input_file \in SeqsUpTo(RawLines, MaxLines)
    /\ StartState
    /\ BenchIdle

\* Full runs: input files of plain lines, pools of at most MaxPool workers.
\* Broadcast mode never opens the input file: one file stands for all.
Init ==
    /\ args \in { a \in ArgSets : Len(a.gpus) * a.per_gpu_jobs <= MaxPool }
    /\ input_file \in { [i \in 1..n |-> <<"a">>] : n \in 0..MainLines }
    /\ args.split_input \/ Len(input_file) = 1
    /\ StartState
    /\ BenchIdle

\* lines 64-67: int('') raises ValueError for an empty --gpus
ParseArgs ==
    /\ pc = "parse"
    /\ IF args.gpus = <<>>
       THEN /\ pc' = "crashed"
            /\ error' = "ValueError"
            /\ UNCHANGED <<gpu_ids, total_processes>>
       ELSE /\ pc' = "plan"
            /\ gpu_ids' = args.gpus
            /\ total_processes' = Len(args.gpus) * args.per_gpu_jobs
            /\ UNCHANGED error
    /\ UNCHANGED <<args, input_file, fs, chunk_files, jobs, status, env,
                   retval, yielded, results, report, progress>>
    /\ UNCHANGED benchvars

\* The device index off by one: gpu_ids[(i + 1) % len(gpu_ids)]
split_jobs_shifted(chunks, gpus) ==
    [i \in 1..Len(chunks) |->
        [config |-> "config", file |-> chunks[i],
         suffix |-> <<"chunk", i - 1, 0>>,
         gpu |-> gpus[(i % Len(gpus)) + 1]]]

\* lines 82-84: one job per chunk, gpu_ids[i % len(gpu_ids)]
split_jobs(chunks, gpus) ==
    [i \in 1..Len(chunks) |->
        [config |-> "config", file |-> chunks[i],
         suffix |-> <<"chunk", i - 1, 0>>,
         gpu |-> gpus[((i - 1) % Len(gpus)) + 1]]]

\* Without the inner loop of line 88: one job per gpu
RECURSIVE broadcast_jobs_single(_, _)
broadcast_jobs_single(gpus, n) ==
    IF gpus = <<>> THEN <<>>
    ELSE << [config |-> "config", file |-> [base |-> "input", chunk |-> -1],
             suffix |-> <<"gpu", Head(gpus), 0>>,
             gpu |-> Head(gpus)] >>
         \o broadcast_jobs_single(Tail(gpus), n)

\* lines 87-89: per_gpu_jobs jobs per gpu, all on the input file
RECURSIVE broadcast_jobs(_, _)
broadcast_jobs(gpus, n) ==
    IF gpus = <<>> THEN <<>>
    ELSE [j \in 1..Max(0, n) |->
             [config |-> "config", file |-> InputName,
              suffix |-> <<"gpu", Head(gpus), j - 1>>,
              gpu |-> Head(gpus)]]
         \o broadcast_jobs(Tail(gpus), n)

\* lines 77-91
PlanJobs ==
    /\ pc = "plan"
    /\ IF args.split_input
       THEN LET r == split_input_file(input_file, total_processes, fs)
            IN  /\ fs' = r.fs
                /\ chunk_files' = r.chunks
                /\ IF r.error # "none"
                   THEN /\ pc' = "crashed"
                        /\ error' = r.error
                        /\ UNCHANGED jobs
                   ELSE /\ pc' = "pool"
                        /\ jobs' = split_jobs(r.chunks, gpu_ids)
                        /\ UNCHANGED error
       ELSE /\ jobs' = broadcast_jobs(gpu_ids, args.per_gpu_jobs)
            /\ pc' = "pool"
            /\ UNCHANGED <<fs, chunk_files, error>>
    /\ UNCHANGED <<args, input_file, gpu_ids, total_processes, status, env,
                   retval, yielded, results, report, progress>>
    /\ UNCHANGED benchvars

PlanNext == ParseArgs \/ PlanJobs

PlanSpec == PlanInit /\ [][PlanNext]_vars

----------------------------------------------------------------------------
(* run_inference_job, in a worker of the pool.                             *)

NoDevice == -1
NoResult ==
    [gpu |-> -1, success |-> FALSE, time |-> 0, file |-> InputName,
     error |-> "none"]

\* lines 13-14: env['CUDA_VISIBLE_DEVICES'] = str(gpu_id)
job_env(job) == job.gpu

\* Without the except clause of line 33 a non-zero exit raises as well.
run_inference_job_uncaught(job, proc, elapsed) ==
    IF proc = "exit0"
    THEN [raised |-> "none",
          value |-> [gpu |-> job.gpu, success |-> TRUE, time |-> elapsed,
                     file |-> job.file, error |-> "none"]]
    ELSE [raised |-> IF proc = "exit1" THEN "CalledProcessError"
                     ELSE "FileNotFoundError",
          value |-> [gpu |-> -1, success |-> FALSE, time |-> 0,
                     file |-> [base |-> "input", chunk |-> -1],
                     error |-> "none"]]

\* lines 26-37: what the call leaves in its future, by what the external
\* process did: "exit0", "exit1" (CalledProcessError, caught) or "nolaunch"
\* (FileNotFoundError from subprocess.run, which no except clause catches);
\* elapsed is time.time() - start_time
run_inference_job(job, proc, elapsed) ==
    IF proc = "exit0"
    THEN [raised |-> "none",
          value |-> [gpu |-> job.gpu, success |-> TRUE, time |-> elapsed,
                     file |-> job.file, error |-> "none"]]
    ELSE IF proc = "exit1"
    THEN [raised |-> "none",
          value |-> [gpu |-> job.gpu, success |-> FALSE, time |-> elapsed,
                     file |-> job.file, error |-> "stderr"]]
    ELSE [raised |-> "FileNotFoundError", value |-> NoResult]

Jobs == DOMAIN jobs
Busy == { j \in DOMAIN status : status[j] \in {"running", "hung"} }
Finished(j) == status[j] = "done"

\* line 97: ProcessPoolExecutor(max_workers) raises ValueError unless > 0
CreatePool ==
    /\ pc = "pool"
    /\ IF total_processes <= 0
       THEN /\ pc' = "crashed"
            /\ error' = "ValueError"
       ELSE /\ pc' = "submit"
            /\ UNCHANGED error
    /\ UNCHANGED <<args, input_file, fs, gpu_ids, total_processes,
                   chunk_files, jobs, status, env, retval, yielded, results,
                   report, progress>>
    /\ UNCHANGED benchvars

\* line 98: every job is submitted; its future is pending
SubmitJobs ==
    /\ pc = "submit"
    /\ status' = [j \in Jobs |-> "pending"]
    /\ env' = [j \in Jobs |-> NoDevice]
    /\ retval' = [j \in Jobs |-> [raised |-> "none", value |-> NoResult]]
    /\ pc' = "collect"
    /\ UNCHANGED <<args, input_file, fs, error, gpu_ids, total_processes,
                   chunk_files, jobs, yielded, results, report, progress>>
    /\ UNCHANGED benchvars

\* A pool whose workers are never handed a second work item.
worker_never_reused ==
    Cardinality({ j \in DOMAIN status : status[j] # "pending" })
        < total_processes

\* A worker is free for the next work item: at most max_workers processes.
worker_free == Cardinality(Busy) < total_processes

\* A free worker takes the oldest pending work item and enters
\* run_inference_job, which sets the environment of its external process.
JobStart(j) ==
    /\ j \in DOMAIN status
    /\ status[j] = "pending"
    /\ \A i \in 1..(j - 1) : status[i] # "pending"
    /\ worker_free
    /\ status' = [status EXCEPT ![j] = "running"]
    /\ env' = [env EXCEPT ![j] = job_env(jobs[j])]
    /\ UNCHANGED <<args, input_file, fs, pc, error, gpu_ids, total_processes,
                   chunk_files, jobs, retval, yielded, results, report, progress>>
    /\ UNCHANGED benchvars

\* subprocess.run returns or raises: the process exited, or never started
JobEnd(j, proc, elapsed) ==
    /\ j \in DOMAIN status
    /\ status[j] = "running"
    /\ status' = [status EXCEPT ![j] = "done"]
    /\ retval' = [retval EXCEPT ![j] = run_inference_job(jobs[j], proc, elapsed)]
    /\ UNCHANGED <<args, input_file, fs, pc, error, gpu_ids, total_processes,
                   chunk_files, jobs, env, yielded, results, report, progress>>
    /\ UNCHANGED benchvars

\* The external process never exits: subprocess.run (line 29, no timeout)
\* never returns.
JobHang(j) ==
    /\ j \in DOMAIN status
    /\ status[j] = "running"
    /\ status' = [status EXCEPT ![j] = "hung"]
    /\ UNCHANGED <<args, input_file, fs, pc, error, gpu_ids, total_processes,
                   chunk_files, jobs, env, retval, yielded, results, report, progress>>
    /\ UNCHANGED benchvars

----------------------------------------------------------------------------
(* main(): collection, summary, cleanup.                                   *)

\* A loop that stops at the first completed future.
first_yielded == yielded # {} \/ DOMAIN jobs = {}

\* as_completed has handed over every future
all_yielded == yielded = Jobs

\* A tally that counts every outcome as a success.
tally_all_successful(rs, total) ==
    [completed |-> Len(rs), total |-> total,
     successful |-> Len(rs),
     failed |-> Len(SelectSeq(rs, LAMBDA r : ~r.success))]

\* lines 104-106: the progress line printed after an outcome
tally(rs, total) ==
    [completed |-> Len(rs), total |-> total,
     successful |-> Len(SelectSeq(rs, LAMBDA r : r.success)),
     failed |-> Len(SelectSeq(rs, LAMBDA r : ~r.success))]

\* lines 100-106: the next completed future; future.result() returns the
\* job's dict, or raises what the job raised
Collect(j) ==
    /\ pc = "collect"
    /\ j \in DOMAIN status
    /\ Finished(j)
    /\ j \notin yielded
    /\ yielded' = yielded \cup {j}
    /\ IF retval[j].raised # "none"
       THEN /\ pc' = "unwind"
            /\ error' = retval[j].raised
            /\ UNCHANGED <<results, progress>>
       ELSE /\ results' = Append(results, retval[j].value)
            /\ progress' = Append(progress, tally(results', Len(jobs)))
            /\ UNCHANGED <<pc, error>>
    /\ UNCHANGED <<args, input_file, fs, gpu_ids, total_processes,
                   chunk_files, jobs, status, env, retval, report>>
    /\ UNCHANGED benchvars

\* line 100 ends the loop, and leaving the with block (line 97) joins the
\* workers: shutdown(wait=True)
LeavePool ==
    /\ pc = "collect"
    /\ all_yielded
    /\ \A j \in Jobs : Finished(j)
    /\ pc' = "summary"
    /\ UNCHANGED <<args, input_file, fs, error, gpu_ids, total_processes,
                   chunk_files, jobs, status, env, retval, yielded, results,
                   report, progress>>
    /\ UNCHANGED benchvars

\* An exception leaves the with block: shutdown(wait=True) still runs every
\* submitted job to its end, then the exception leaves main()
Unwind ==
    /\ pc = "unwind"
    /\ \A j \in Jobs : Finished(j)
    /\ pc' = "crashed"
    /\ UNCHANGED <<args, input_file, fs, error, gpu_ids, total_processes,
                   chunk_files, jobs, status, env, retval, yielded, results,
                   report, progress>>
    /\ UNCHANGED benchvars

\* lines 109-110, 124-127
successful_jobs == SelectSeq(results, LAMBDA r : r.success)
failed_jobs == SelectSeq(results, LAMBDA r : ~r.success)

RECURSIVE SumTimes(_)
SumTimes(rs) == IF rs = <<>> THEN 0 ELSE Head(rs).time + SumTimes(Tail(rs))

\* lines 118-122: avg = sum / len, min, max, speedup = sum / total_time;
\* the quotients are kept as numerator and denominator, and a sum / len
\* or a min() over no job raises
timing_stats(succ) ==
    IF succ = <<>>
    THEN [error |-> "ZeroDivisionError", sum |-> 0, count |-> 0,
          min |-> 0, max |-> 0]
    ELSE [error |-> "none", sum |-> SumTimes(succ), count |-> Len(succ),
          min |-> CHOOSE t \in { succ[i].time : i \in DOMAIN succ } :
                     \A i \in DOMAIN succ : t <= succ[i].time,
          max |-> CHOOSE t \in { succ[i].time : i \in DOMAIN succ } :
                     \A i \in DOMAIN succ : t >= succ[i].time]

\* The statistics printed whether or not a job succeeded.
stats_printed_always(succ) == TRUE

\* line 117: if successful_jobs:
stats_printed(succ) == succ # <<>>

\* lines 108-127
Summary ==
    /\ pc = "summary"
    /\ LET stats == IF stats_printed(successful_jobs)
                    THEN <<timing_stats(successful_jobs)>>
                    ELSE <<>>
       IN  IF stats # <<>> /\ stats[1].error # "none"
           THEN /\ pc' = "crashed"
                /\ error' = stats[1].error
                /\ UNCHANGED report
           ELSE /\ report' = << [total |-> Len(jobs),
                                 successful |-> Len(successful_jobs),
                                 failed |-> Len(failed_jobs),
                                 stats |-> stats,
                                 failed_list |->
                                    [i \in 1..Len(failed_jobs) |->
                                        <<failed_jobs[i].gpu,
                                          failed_jobs[i].file>>]] >>
                /\ pc' = "cleanup"
                /\ UNCHANGED error
    /\ UNCHANGED <<args, input_file, fs, gpu_ids, total_processes,
                   chunk_files, jobs, status, env, retval, yielded, results,
                   progress>>
    /\ UNCHANGED benchvars

Range(s) == { s[i] : i \in DOMAIN s }

\* os.remove of every name in `names` that exists
remove_files(files, names) ==
    [n \in (DOMAIN files) \ names |-> files[n]]

\* The cleanup run from inside the collection loop, jobs still in flight.
Cleanup_in_loop ==
    /\ pc \in {"collect", "cleanup"}
    /\ fs' = IF args.split_input
             THEN [n \in (DOMAIN fs) \ { chunk_files[i] : i \in DOMAIN chunk_files }
                      |-> fs[n]]
             ELSE fs
    /\ pc' = "done"
    /\ UNCHANGED <<args, input_file, error, gpu_ids, total_processes,
                   chunk_files, jobs, status, env, retval, yielded, results,
                   report, progress>>
    /\ UNCHANGED benchvars

\* lines 129-134
Cleanup ==
    /\ pc = "cleanup"
    /\ fs' = IF args.split_input
             THEN remove_files(fs, Range(chunk_files))
             ELSE fs
    /\ pc' = "done"
    /\ UNCHANGED <<args, input_file, error, gpu_ids, total_processes,
                   chunk_files, jobs, status, env, retval, yielded, results,
                   report, progress>>
    /\ UNCHANGED benchvars

Procs == {"exit0", "exit1", "nolaunch"}

Next ==
    \/ ParseArgs
    \/ PlanJobs
    \/ CreatePool
    \/ SubmitJobs
    \/ \E j \in 1..Len(jobs) : JobStart(j)
    \/ \E j \in 1..Len(jobs), proc \in Procs, elapsed \in 1..MaxElapsed :
          JobEnd(j, proc, elapsed)
    \/ \E j \in 1..Len(jobs) : JobHang(j)
    \/ \E j \in 1..Len(jobs) : Collect(j)
    \/ LeavePool
    \/ Unwind
    \/ Summary
    \/ Cleanup

Spec == Init /\ [][Next]_vars

\* Every step that can be taken is eventually taken: the main process and
\* the workers are scheduled by the operating system; a hung external
\* process enables no step.
FairSpec == Spec /\ WF_vars(Next)

----------------------------------------------------------------------------
(* scripts/speed_benchmark.py.                                             *)

\* lines 99-103: the benchmark configurations, in order
Benchmarks == <<"inference", "inference_optimized", "inference_1.3B_optimized">>

TestInput == "test_input"

mainvars == <<args, input_file, fs, pc, error, gpu_ids, total_processes,
              chunk_files, jobs, status, env, retval, yielded, results,
              report, progress>>

\* A run of speed_benchmark.py with any set of the config files on disk;
\* parallel_inference.py is not running.
BenchInit ==
    /\ args = [gpus |-> <<>>, per_gpu_jobs |-> 0, split_input |-> FALSE]
    /\ input_file = <<>>
    /\ StartState
    /\ bpc = "start"
    /\ configs \in SUBSET Range(Benchmarks)
    /\ test_input = {}
    /\ available = <<>>
    /\ bresults = <<>>
    /\ results_file = FALSE
    /\ berror = "none"

\* lines 14-20, 95: NamedTemporaryFile(delete=False) is written and kept
create_test_input ==
    /\ bpc = "start"
    /\ test_input' = test_input \cup {TestInput}
    /\ bpc' = "check"
    /\ UNCHANGED <<configs, available, bresults, results_file, berror>>
    /\ UNCHANGED mainvars

\* lines 113-115: "No valid configurations found!" and return
return_early ==
    /\ test_input' = test_input
    /\ bpc' = "returned"

\* lines 105-119
CheckConfigs ==
    /\ bpc = "check"
    /\ available' = SelectSeq(Benchmarks, LAMBDA c : c \in configs)
    /\ IF available' = <<>>
       THEN return_early
       ELSE bpc' = "loop" /\ UNCHANGED test_input
    /\ UNCHANGED <<configs, bresults, results_file, berror>>
    /\ UNCHANGED mainvars

\* lines 22-88: the record run_benchmark returns, or the exception that
\* leaves it: only TimeoutExpired and CalledProcessError are caught
run_benchmark(config, outcome) ==
    IF outcome = "exit0"
    THEN [raised |-> "none",
          value |-> [config |-> config, success |-> TRUE, error |-> "none"]]
    ELSE IF outcome = "timeout"
    THEN [raised |-> "none",
          value |-> [config |-> config, success |-> FALSE,
                     error |-> "timeout"]]
    ELSE IF outcome = "exit1"
    THEN [raised |-> "none",
          value |-> [config |-> config, success |-> FALSE,
                     error |-> "stderr"]]
    ELSE [raised |-> IF outcome = "nolaunch" THEN "FileNotFoundError"
                     ELSE "ValueError",
          value |-> [config |-> config, success |-> FALSE,
                     error |-> "none"]]

\* What the external process and its output can do: exit 0, run over the
\* 30 minutes, exit non-zero, not start, print a metric float() rejects
Outcomes == {"exit0", "timeout", "exit1", "nolaunch", "badmetric"}

\* lines 121-131: the next available benchmark
RunBenchmark(outcome) ==
    /\ bpc = "loop"
    /\ Len(bresults) < Len(available)
    /\ LET r == run_benchmark(available[Len(bresults) + 1], outcome)
       IN  IF r.raised # "none"
           THEN /\ bpc' = "crashed"
                /\ berror' = r.raised
                /\ UNCHANGED bresults
           ELSE /\ bresults' = Append(bresults, r.value)
                /\ UNCHANGED <<bpc, berror>>
    /\ UNCHANGED <<configs, test_input, available, results_file>>
    /\ UNCHANGED mainvars

\* lines 133-178: the ranking, and the JSON file of the results
SaveResults ==
    /\ bpc = "loop"
    /\ Len(bresults) = Len(available)
    /\ results_file' = TRUE
    /\ bpc' = "unlink"
    /\ UNCHANGED <<configs, test_input, available, bresults, berror>>
    /\ UNCHANGED mainvars

\* lines 180-184: os.unlink(test_input), then main returns
UnlinkTestInput ==
    /\ bpc = "unlink"
    /\ test_input' = test_input \ {TestInput}
    /\ bpc' = "returned"
    /\ UNCHANGED <<configs, available, bresults, results_file, berror>>
    /\ UNCHANGED mainvars

BenchNext ==
    \/ create_test_input
    \/ CheckConfigs
    \/ \E outcome \in Outcomes : RunBenchmark(outcome)
    \/ SaveResults
    \/ UnlinkTestInput

BenchSpec == BenchInit /\ [][BenchNext]_vars

----------------------------------------------------------------------------
(* Properties.                                                             *)

Count(S) == Cardinality(S)

\* Jobs whose external process is alive with CUDA_VISIBLE_DEVICES = d
RunningOn(d) == { j \in Busy : env[j] = d }

\* The characters of a written file, cut at each "\n"
RECURSIVE text_lines(_, _)
text_lines(text, cur) ==
    IF text = <<>> THEN <<cur>>
    ELSE IF Head(text) = NL THEN <<cur>> \o text_lines(Tail(text), <<>>)
    ELSE text_lines(Tail(text), Append(cur, Head(text)))

\* The items of the chunk files from the k-th on, in order
RECURSIVE chunk_items(_)
chunk_items(names) ==
    IF names = <<>> THEN <<>>
    ELSE text_lines(fs[Head(names)], <<>>) \o chunk_items(Tail(names))

Planned == pc = "pool" /\ args.split_input
SplitCase == Planned /\ total_processes >= 1 /\ read_lines(input_file) # <<>>
JobsOn(d) == { j \in Jobs : jobs[j].gpu = d }
Devices == { gpu_ids[i] : i \in DOMAIN gpu_ids }
Launched == Len(status) > 0

\* C1: at any time, at most per_gpu_jobs running jobs have their
\* CUDA_VISIBLE_DEVICES pinned to the same device id.
C1_DeviceCap ==
    \A d \in Devices :
        RunningOn(d) # {} => Count(RunningOn(d)) <= args.per_gpu_jobs

\* C2: when the summary is computed the results hold exactly one outcome
\* per job, each with its job's device id and file, and a run is only ever
\* cut short by a job that raised, never by a non-zero exit.
C2_OneOutcomePerJob ==
    /\ pc \in {"summary", "cleanup", "done"} =>
          /\ Len(results) = Len(jobs)
          /\ \A j \in Jobs :
                Count({ i \in DOMAIN results :
                          /\ results[i].gpu = jobs[j].gpu
                          /\ results[i].file = jobs[j].file })
                = Count({ k \in Jobs :
                          /\ jobs[k].gpu = jobs[j].gpu
                          /\ jobs[k].file = jobs[j].file })
    /\ (Launched /\ pc \in {"unwind", "crashed"}) =>
          \E j \in Jobs : retval[j].raised = "FileNotFoundError"
    /\ \A j \in yielded :
          retval[j].raised = "none" => retval[j].value \in Range(results)

C2_Witness ==
    /\ pc = "summary"
    /\ Len(jobs) >= 3
    /\ Len(failed_jobs) >= 1
    /\ Len(successful_jobs) >= 2
    /\ results[1].gpu # jobs[1].gpu

\* C3: a job whose process cannot be started is recorded as a failed
\* outcome and the batch goes on: main is not ended by it.
C3_LaunchFailureIsolated ==
    \A j \in DOMAIN retval :
        (j \in yielded /\ retval[j].raised = "FileNotFoundError")
        => /\ pc \notin {"unwind", "crashed"}
           /\ \E i \in DOMAIN results :
                 /\ ~results[i].success
                 /\ results[i].gpu = jobs[j].gpu
                 /\ results[i].file = jobs[j].file

\* C4: a job whose process never exits is eventually ended and recorded as
\* a failed outcome tagged "timeout".
C4_HungJobTimesOut ==
    \A j \in 1..Max(MainLines, MaxPool) :
        (j \in DOMAIN status /\ status[j] = "hung")
        ~> (/\ j \in DOMAIN status
            /\ status[j] = "done"
            /\ ~retval[j].value.success
            /\ retval[j].value.error = "timeout")

\* C5: after a split run that launched its jobs, no chunk file is left,
\* whatever each job did.
C5_NoChunkLeft ==
    (args.split_input /\ Launched /\ pc \in {"done", "crashed"})
    => DOMAIN fs = {}

\* C6: no submitted job waits for a worker while every worker is busy.
C6_NoWaiting ==
    \A j \in DOMAIN status : status[j] = "pending" => worker_free

\* C7: the summary is computed only when every submitted job has finished
\* and handed over its outcome.
C7_SummaryAfterJoin ==
    (pc \in {"cleanup", "done"} \/ report # <<>>) =>
        /\ Launched \/ Jobs = {}
        /\ \A j \in Jobs : status[j] = "done" /\ j \in yielded
        /\ Len(results) = Count(yielded)

C7_Witness ==
    /\ report # <<>>
    /\ Len(jobs) >= 3
    /\ report[1].failed >= 1
    /\ report[1].successful >= 1

\* C8: for a non-empty workload of L items and n >= 1, split_input_file
\* returns k chunks with 1 <= k <= n and k <= L.
C8_ChunkCountInRange ==
    SplitCase =>
        /\ 1 <= Len(chunk_files)
        /\ Len(chunk_files) <= total_processes
        /\ Len(chunk_files) <= Len(read_lines(input_file))

\* C9: the chunk files, read in order, give back the workload exactly;
\* every chunk holds an item and has a file name of its own.
C9_RoundTrip ==
    SplitCase =>
        /\ \A i \in DOMAIN chunk_files : chunk_files[i] \in DOMAIN fs
        /\ chunk_items(chunk_files) = read_lines(input_file)
        /\ \A i \in DOMAIN chunk_files : fs[chunk_files[i]] # <<>>
        /\ \A i, k \in DOMAIN chunk_files :
              chunk_files[i] = chunk_files[k] => i = k
        /\ Count(DOMAIN fs) = Len(chunk_files)

C9_Witness ==
    /\ SplitCase
    /\ Len(chunk_files) >= 2
    /\ Len(input_file) > Len(read_lines(input_file))
    /\ \E i \in DOMAIN input_file :
          strip(input_file[i]) \notin {<<>>, input_file[i]}
    /\ \A i \in DOMAIN chunk_files : NL \in Range(fs[chunk_files[i]])

\* C10: in split mode the plan has one job per chunk, the i-th chunk is in
\* the i-th job alone, bound to gpu_ids[i mod len(gpu_ids)]; the job counts
\* of two devices differ by at most one; 5 chunks on devices 0,1,2 are
\* bound to 0,1,2,0,1.
C10_RoundRobin ==
    Planned =>
        /\ Len(jobs) = Len(chunk_files)
        /\ \A i \in DOMAIN chunk_files :
              /\ { j \in Jobs : jobs[j].file = chunk_files[i] } = {i}
              /\ jobs[i].gpu = gpu_ids[((i - 1) % Len(gpu_ids)) + 1]
        /\ \A d, e \in Devices : Count(JobsOn(d)) - Count(JobsOn(e)) <= 1
        /\ (Len(chunk_files) = 5 /\ gpu_ids = <<0, 1, 2>>)
              => [i \in 1..5 |-> jobs[i].gpu] = <<0, 1, 2, 0, 1>>

C10_Witness ==
    /\ Planned
    /\ total_processes = 3
    /\ Len(chunk_files) = 5
    /\ gpu_ids = <<0, 1, 2>>

Broadcast == pc = "pool" /\ ~args.split_input
ValidArgs == args.gpus # <<>> /\ args.per_gpu_jobs >= 1
Unfinished == { j \in DOMAIN status : status[j] # "done" }

\* C11: in broadcast mode with per_gpu_jobs >= 1 the plan has
\* len(gpu_ids) * per_gpu_jobs jobs, per_gpu_jobs of them on each device,
\* all on the unsplit input; devices 0,1 with one job each give two jobs on
\* two devices.
C11_BroadcastPlan ==
    (Broadcast /\ args.per_gpu_jobs >= 1) =>
        /\ Len(jobs) = Len(gpu_ids) * args.per_gpu_jobs
        /\ \A d \in Devices : Count(JobsOn(d)) = args.per_gpu_jobs
        /\ \A j \in Jobs : jobs[j].file = InputName /\ jobs[j].gpu \in Devices
        /\ (gpu_ids = <<0, 1>> /\ args.per_gpu_jobs = 1)
              => [j \in Jobs |-> jobs[j].gpu] = <<0, 1>>
        /\ DOMAIN fs = {}

C11_Witness ==
    /\ Broadcast
    /\ Len(gpu_ids) = 3
    /\ args.per_gpu_jobs = 2
    /\ Len(jobs) = 6

\* C13: with valid arguments and an empty workload a split run ends in an error at the plan,
\* before any job is launched.
C13_EmptyWorkloadFails ==
    (ValidArgs /\ args.split_input /\ read_lines(input_file) = <<>>)
    => /\ pc \in {"parse", "plan", "crashed"}
       /\ pc = "crashed" => error # "none"

\* C14: with an empty device list or per_gpu_jobs < 1 the run ends in an
\* error with no job launched and no chunk file ever written.
C14_MalformedFailsClean ==
    ~ValidArgs
    => /\ pc \in {"parse", "plan", "pool", "crashed"}
       /\ ~Launched
       /\ DOMAIN fs = {}

\* C16: every chunk but the last holds exactly chunk_size items and the
\* last holds at least chunk_size.
C16_RemainderOnLastChunk ==
    SplitCase =>
        LET lines == read_lines(input_file)
            c == Max(1, Len(lines) \div total_processes)
            k == Len(chunk_files)
            size(i) == Len(text_lines(fs[chunk_files[i]], <<>>))
        IN  /\ \A i \in 1..(k - 1) : size(i) = c
            /\ k >= 1 => size(k) >= c

\* C17: in split mode the chunk file of a job that is pending or running
\* is on disk: no deletion before every job has finished.
C17_NoDeletionBeforeJoin ==
    /\ \A j \in Unfinished :
          args.split_input => jobs[j].file \in DOMAIN fs
    /\ (args.split_input /\ Launched /\ Unfinished # {})
          => DOMAIN fs = Range(chunk_files)

C17_Witness ==
    /\ args.split_input
    /\ pc = "done"
    /\ Len(chunk_files) >= 3
    /\ Len(chunk_files) > total_processes
    /\ DOMAIN fs = {}

\* C18: with valid arguments, unless some external process hangs or cannot
\* be started, main eventually ends after the summary and the cleanup,
\* every job finished and recorded.
C18_Terminates ==
    <>( \/ ~ValidArgs
        \/ \E j \in DOMAIN status :
              status[j] = "hung" \/ retval[j].raised # "none"
        \/ /\ pc = "done"
           /\ report # <<>>
           /\ Unfinished = {}
           /\ Len(results) = Len(jobs) )

C18_Witness ==
    /\ pc = "done"
    /\ Len(jobs) > total_processes
    /\ Len(results) = Len(jobs)
    /\ \E i \in DOMAIN results : ~results[i].success

\* C12: the progress lines count up by one per outcome and never pass the
\* number of jobs; the success and failure counts never decrease and add
\* up to the completed count.
C12_TallyMonotonic ==
    /\ Len(progress) = Len(results)
    /\ \A i \in DOMAIN progress :
          /\ progress[i].completed = i
          /\ progress[i].total = Len(jobs)
          /\ progress[i].completed <= progress[i].total
          /\ progress[i].successful + progress[i].failed
                = progress[i].completed
          /\ i > 1 => /\ progress[i].successful >= progress[i - 1].successful
                      /\ progress[i].failed >= progress[i - 1].failed

C12_Witness ==
    /\ Len(progress) >= 3
    /\ progress[1].failed = 1
    /\ progress[Len(progress)].successful >= 1
    /\ progress[Len(progress)].completed = Len(jobs)

AllFailed ==
    /\ Launched
    /\ yielded = Jobs
    /\ Len(results) = Len(jobs)
    /\ \A i \in DOMAIN results :
          ~results[i].success /\ results[i].error = "stderr"

\* C15: when every job of a batch exits non-zero, main goes through the
\* summary and ends normally: 0 successful, every job in the failed list
\* with its device and file, no timing statistics, no error.
C15_AllFailedStillReports ==
    (AllFailed /\ pc \notin {"collect", "summary"}) =>
        /\ pc \in {"cleanup", "done"}
        /\ error = "none"
        /\ report # <<>>
        /\ report[1].total = Len(jobs)
        /\ report[1].successful = 0
        /\ report[1].failed = Len(jobs)
        /\ report[1].stats = <<>>
        /\ Len(report[1].failed_list) = Len(jobs)
        /\ \A j \in Jobs :
              Count({ i \in DOMAIN report[1].failed_list :
                        report[1].failed_list[i]
                            = <<jobs[j].gpu, jobs[j].file>> })
              = Count({ k \in Jobs : /\ jobs[k].gpu = jobs[j].gpu
                                     /\ jobs[k].file = jobs[j].file })

C15_Witness ==
    /\ AllFailed
    /\ pc = "done"
    /\ Len(jobs) >= 3
    /\ Count(Devices) >= 2

\* C19: whenever main() of the speed benchmark has returned, the temporary
\* test input it created is no longer on disk.
C19_TestInputDeleted ==
    bpc = "returned" => test_input = {}

====
